---- MODULE Spec2Model ----
(***************************************************************************)
(* A model of the pytest fixtures of pulp_smash.pulp3.pytest_plugin:       *)
(* the object cleanup tracker (add_to_cleanup, gen_object_with_cleanup),   *)
(* the threaded aiohttp fixture servers (ThreadedAiohttpServer,            *)
(* ThreadedAiohttpServerData, gen_threaded_aiohttp_server) and the service *)
(* pollers (start_and_check_services, stop_and_check_services).            *)
(*                                                                         *)
(* Each fixture is its own state machine over a shared list of variables:  *)
(* Spec (the cleanup tracker), SpecGen, SpecServer / LiveSpecServer,       *)
(* SpecUrl, SpecSvc and SpecTls each run one fixture and leave the others  *)
(* idle; SpecUpload is one class run of UploadRpmTestCase of               *)
(* pulp_smash.tests.rpm.api_v2.test_upload_publish.                        *)
(***************************************************************************)
EXTENDS Integers, Sequences, FiniteSets, TLC

VARIABLES
    \* ---- add_to_cleanup / gen_object_with_cleanup ----
    obj_refs,           \* the closure's list of (api_client, pulp_href) entries
    cpc,                \* position of the add_to_cleanup generator
    del_i,              \* iterations of the deletion loop completed
    delete_task_hrefs,  \* the task urls collected by the deletion loop
    mon_i,              \* iterations of the monitor loop completed
    delete_calls,       \* log of api_client.delete calls: [entry, outcome]
    monitor_calls,      \* log of teardown monitor_task calls: [task, outcome]
    gen_last,           \* the latest _gen_object_with_cleanup call, in and out
    \* ---- gen_threaded_aiohttp_server ----
    fixture_servers_data, \* list of handles; the thread's state is kept beside
    spc,                \* position of the gen_threaded_aiohttp_server generator
    sig_i,              \* iterations of the signalling loop completed
    join_i,             \* iterations of the join loop completed
    td_log,             \* log of teardown steps: <<"set", i>> and <<"join", i>>
    url_last,           \* the latest make_url call, in and out
    \* ---- start_and_check_services / stop_and_check_services ----
    svc_op,             \* "none", "start" or "stop": the helper being run
    svc_cmds,           \* number of svc_mgr.start / svc_mgr.stop commands issued
    polls,              \* status polls made by the running helper
    poll_log,           \* per poll: did it end the loop (return True)
    poll_last,          \* the outcome of the latest status poll
    svc_ret,            \* "running", TRUE or FALSE: what the helper returned
    \* ---- TLS certificate fixtures ----
    tls_cas,            \* per CA fixture: "none", or the CA it made (session scope)
    tls_certs,          \* per leaf fixture: NoCert, or the certificate of this test
    \* ---- UploadRpmTestCase ----
    upc,                \* position of the class run (setUpClass .. tearDownClass)
    repos,              \* cls.repos
    up_td,              \* iterations of tearDownClass's loop completed
    up_failure,         \* where setUpClass failed: "none", "before", "post", "get"
    server_repos,       \* the repositories that exist on the server
    posted,             \* log of the repositories the class created, in order
    up_deletes,         \* log of tearDownClass's DELETE requests: [path, outcome]
    orphans_removed     \* has DELETE ORPHANS_PATH succeeded

cleanup_vars == <<obj_refs, cpc, del_i, delete_task_hrefs, mon_i, delete_calls,
                  monitor_calls, gen_last>>
server_vars == <<fixture_servers_data, spc, sig_i, join_i, td_log, url_last>>
svc_vars == <<svc_op, svc_cmds, polls, poll_log, poll_last, svc_ret>>
tls_vars == <<tls_cas, tls_certs>>
upload_vars == <<upc, repos, up_td, up_failure, server_repos, posted, up_deletes,
                 orphans_removed>>
vars == <<cleanup_vars, server_vars, svc_vars, tls_vars, upload_vars>>

(***************************************************************************)
(* Bounds of the model.                                                    *)
(***************************************************************************)
MaxRefs == 3        \* cleanup entries registered in one test
MaxCreated == 2     \* created_resources reported by one task

Clients == {"rpm_api", "file_api"}
Hrefs == {"/h/1", "/h/2"}

RECURSIVE SeqsUpTo(_, _)
SeqsUpTo(S, n) ==
    IF n = 0 THEN {<<>>}
    ELSE LET shorter == SeqsUpTo(S, n - 1)
         IN  shorter \cup {Append(s, x) : s \in {t \in shorter : Len(t) = n - 1}, x \in S}

(***************************************************************************)
(* Object cleanup: add_to_cleanup                                          *)
(***************************************************************************)
NoGen == [kind |-> "none"]

CleanupInit ==
    /\ obj_refs = <<>>
    /\ cpc = "test"
    /\ del_i = 0
    /\ delete_task_hrefs = <<>>
    /\ mon_i = 0
    /\ delete_calls = <<>>
    /\ monitor_calls = <<>>
    /\ gen_last = NoGen

\* _add_to_cleanup: obj_refs.append((api_client, pulp_href))
add_to_cleanup(refs, api_client, pulp_href) ==
    Append(refs, <<api_client, pulp_href>>)

\* A test registers an object for cleanup.
AddToCleanup(api_client, pulp_href) ==
    /\ cpc = "test"
    /\ Len(obj_refs) < MaxRefs
    /\ obj_refs' = add_to_cleanup(obj_refs, api_client, pulp_href)
    /\ UNCHANGED <<cpc, del_i, delete_task_hrefs, mon_i, delete_calls,
                   monitor_calls, gen_last>>
    /\ UNCHANGED <<server_vars, svc_vars, tls_vars, upload_vars>>

\* Variant: the entries iterated in registration order.
reversed_forward(s) == s

\* reversed(obj_refs): the list iterated from its last element to its first
reversed(s) == [i \in 1..Len(s) |-> s[Len(s) - i + 1]]

\* What api_client.delete(pulp_href).task can do: return a response with a
\* task url, return a response without a task attribute (AttributeError), or
\* raise an Exception.
DeleteOutcomes == {"task", "no_task", "raise"}

\* The body of the try: the task url is appended only when the call and the
\* attribute access both succeed.
collect_task(tasks, outcome, task_url) ==
    IF outcome = "task" THEN Append(tasks, task_url) ELSE tasks

\* Variant: no except clause, a failed deletion leaves the generator.
after_delete_uncaught(outcome, i, n, tasks) ==
    IF outcome # "task" THEN "raised"
    ELSE IF i < n THEN "delete"
    ELSE IF tasks = <<>> THEN "done" ELSE "monitor"

\* Variant: the try wraps the whole loop, a failed deletion ends the loop.
after_delete_try_around_loop(outcome, i, n, tasks) ==
    IF outcome # "task" \/ i >= n
    THEN IF tasks = <<>> THEN "done" ELSE "monitor"
    ELSE "delete"

\* Where the generator stands after deletion attempt number i of n: `except
\* Exception: pass` continues the loop whatever the outcome; after the last
\* entry the monitor loop runs over the collected tasks.
after_delete(outcome, i, n, tasks) ==
    IF i < n THEN "delete"
    ELSE IF tasks = <<>> THEN "done" ELSE "monitor"

\* The test scope ends: the generator resumes after its yield.
TeardownBegin ==
    /\ cpc = "test"
    /\ delete_task_hrefs' = <<>>
    /\ del_i' = 0
    /\ cpc' = after_delete("task", 0, Len(obj_refs), <<>>)
    /\ UNCHANGED <<obj_refs, mon_i, delete_calls, monitor_calls, gen_last>>
    /\ UNCHANGED <<server_vars, svc_vars, tls_vars, upload_vars>>

\* One iteration of `for api_client, pulp_href in reversed(obj_refs)`.
TeardownDelete(outcome) ==
    /\ cpc = "delete"
    /\ del_i < Len(obj_refs)
    /\ LET entry == reversed(obj_refs)[del_i + 1]
           task_url == Len(delete_calls) + 1
           tasks == collect_task(delete_task_hrefs, outcome, task_url)
       IN  /\ delete_calls' = Append(delete_calls,
                                     [entry |-> entry, outcome |-> outcome])
           /\ delete_task_hrefs' = tasks
           /\ del_i' = del_i + 1
           /\ cpc' = after_delete(outcome, del_i + 1, Len(obj_refs), tasks)
    /\ UNCHANGED <<obj_refs, mon_i, monitor_calls, gen_last>>
    /\ UNCHANGED <<server_vars, svc_vars, tls_vars, upload_vars>>

\* What monitor_task can do: return the finished task, or raise.
MonitorOutcomes == {"ok", "raise"}

\* Variant: only the first collected task is waited on.
after_monitor_first_only(outcome, i, n) ==
    IF outcome = "raise" THEN "raised" ELSE "done"

\* Where the generator stands after waiting on task number i of n: the call is
\* outside any try, so an error leaves the generator.
after_monitor(outcome, i, n) ==
    IF outcome = "raise" THEN "raised"
    ELSE IF i < n THEN "monitor" ELSE "done"

\* One iteration of `for deleted_task_href in delete_task_hrefs`.
TeardownMonitor(outcome) ==
    /\ cpc = "monitor"
    /\ mon_i < Len(delete_task_hrefs)
    /\ monitor_calls' = Append(monitor_calls,
                               [task |-> delete_task_hrefs[mon_i + 1],
                                outcome |-> outcome])
    /\ mon_i' = mon_i + 1
    /\ cpc' = after_monitor(outcome, mon_i + 1, Len(delete_task_hrefs))
    /\ UNCHANGED <<obj_refs, del_i, delete_task_hrefs, delete_calls, gen_last>>
    /\ UNCHANGED <<server_vars, svc_vars, tls_vars, upload_vars>>

(***************************************************************************)
(* Object cleanup: gen_object_with_cleanup                                 *)
(***************************************************************************)
NoObj == [pulp_href |-> "none"]

\* What api_client.create can return: the new object, or (a task-based
\* endpoint) a response that has a task and no pulp_href.
CreateResults ==
    [kind : {"object"}, pulp_href : Hrefs, created_resources : {<<>>}]
        \cup [kind : {"task"}, pulp_href : {"none"},
              created_resources : SeqsUpTo(Hrefs, MaxCreated)]

\* api_client.read(created_resource): the object at that href when this client
\* can read it; found = FALSE stands for the call raising.
read(readable, created_resource) ==
    IF created_resource \in readable
    THEN [found |-> TRUE, new_obj |-> [pulp_href |-> created_resource]]
    ELSE [found |-> FALSE, new_obj |-> NoObj]

\* Variant: the loop does not return at the first successful read, so the
\* last readable resource wins.
RECURSIVE read_created_last(_, _, _)
read_created_last(created_resources, readable, i) ==
    IF i > Len(created_resources)
    THEN [reads |-> <<>>, found |-> FALSE, new_obj |-> NoObj]
    ELSE LET r == read(readable, created_resources[i])
             rest == read_created_last(created_resources, readable, i + 1)
         IN  IF rest.found \/ ~r.found
             THEN [rest EXCEPT !.reads = <<created_resources[i]>> \o @]
             ELSE [reads |-> <<created_resources[i]>>, found |-> TRUE,
                   new_obj |-> r.new_obj]

\* `for created_resource in task_data.created_resources`, from position i: each
\* resource is read until one read succeeds; reads lists the resources read.
RECURSIVE read_created(_, _, _)
read_created(created_resources, readable, i) ==
    IF i > Len(created_resources)
    THEN [reads |-> <<>>, found |-> FALSE, new_obj |-> NoObj]
    ELSE LET r == read(readable, created_resources[i])
         IN  IF r.found
             THEN [reads |-> <<created_resources[i]>>, found |-> TRUE,
                   new_obj |-> r.new_obj]
             ELSE LET rest == read_created(created_resources, readable, i + 1)
                  IN  [rest EXCEPT !.reads = <<created_resources[i]>> \o @]

\* Variant: when nothing could be read, the first created resource is
\* registered before the TypeError.
gen_object_register_unreadable(refs, api_client, create, readable, task_outcome) ==
    IF create.kind = "object"
    THEN [refs |-> add_to_cleanup(refs, api_client, create.pulp_href),
          waited |-> FALSE, reads |-> <<>>,
          ret |-> [kind |-> "object", pulp_href |-> create.pulp_href]]
    ELSE IF task_outcome = "raise"
    THEN [refs |-> refs, waited |-> TRUE, reads |-> <<>>,
          ret |-> [kind |-> "TaskError", pulp_href |-> "none"]]
    ELSE LET scan == read_created(create.created_resources, readable, 1)
         IN  IF scan.found
             THEN [refs |-> add_to_cleanup(refs, api_client, scan.new_obj.pulp_href),
                   waited |-> TRUE, reads |-> scan.reads,
                   ret |-> [kind |-> "object",
                            pulp_href |-> scan.new_obj.pulp_href]]
             ELSE [refs |-> IF create.created_resources = <<>> THEN refs
                            ELSE add_to_cleanup(refs, api_client,
                                                create.created_resources[1]),
                   waited |-> TRUE, reads |-> scan.reads,
                   ret |-> [kind |-> "TypeError", pulp_href |-> "none"]]

\* _gen_object_with_cleanup: the entries after the call, whether the task was
\* waited on, the resources read, and what the call returned or raised.
gen_object_with_cleanup(refs, api_client, create, readable, task_outcome) ==
    IF create.kind = "object"
    THEN \* new_obj.pulp_href exists: register and return new_obj
         [refs |-> add_to_cleanup(refs, api_client, create.pulp_href),
          waited |-> FALSE, reads |-> <<>>,
          ret |-> [kind |-> "object", pulp_href |-> create.pulp_href]]
    ELSE IF task_outcome = "raise"
    THEN \* except AttributeError: monitor_task(new_obj.task) raises
         [refs |-> refs, waited |-> TRUE, reads |-> <<>>,
          ret |-> [kind |-> "TaskError", pulp_href |-> "none"]]
    ELSE LET scan == read_created(create.created_resources, readable, 1)
         IN  IF scan.found
             THEN [refs |-> add_to_cleanup(refs, api_client, scan.new_obj.pulp_href),
                   waited |-> TRUE, reads |-> scan.reads,
                   ret |-> [kind |-> "object",
                            pulp_href |-> scan.new_obj.pulp_href]]
             ELSE \* raise TypeError(msg)
                  [refs |-> refs, waited |-> TRUE, reads |-> scan.reads,
                   ret |-> [kind |-> "TypeError", pulp_href |-> "none"]]

\* A test creates an object through the helper. gen_last keeps the call: what
\* it was given, what the entries were before it, and what it did.
GenObjectWithCleanup(api_client, create, readable, task_outcome) ==
    /\ cpc = "test"
    /\ gen_last = NoGen
    /\ Len(obj_refs) < MaxRefs
    /\ LET out == gen_object_with_cleanup(obj_refs, api_client, create, readable,
                                          task_outcome)
       IN  /\ obj_refs' = out.refs
           /\ gen_last' = [kind |-> "call", api_client |-> api_client,
                           create |-> create, readable |-> readable,
                           task_outcome |-> task_outcome,
                           refs_before |-> obj_refs, waited |-> out.waited,
                           reads |-> out.reads, ret |-> out.ret]
    /\ UNCHANGED <<cpc, del_i, delete_task_hrefs, mon_i, delete_calls,
                   monitor_calls>>
    /\ UNCHANGED <<server_vars, svc_vars, tls_vars, upload_vars>>

(***************************************************************************)
(* The cleanup tracker's state machine.                                    *)
(***************************************************************************)
\* The tracker: registrations during the test, then the teardown.
CleanupNext ==
    \/ \E c \in Clients, h \in Hrefs : AddToCleanup(c, h)
    \/ TeardownBegin
    \/ \E o \in DeleteOutcomes : TeardownDelete(o)
    \/ \E o \in MonitorOutcomes : TeardownMonitor(o)

\* The inputs of one call of the helper. For a create that returns the object
\* itself nothing is waited on or read, so those inputs are fixed.
GenReadables(create) == IF create.kind = "task" THEN SUBSET Hrefs ELSE {{}}
GenTaskOutcomes(create) == IF create.kind = "task" THEN MonitorOutcomes ELSE {"ok"}

\* One call of the helper from a test.
GenNext ==
    \E c \in Clients, cr \in CreateResults :
        \E rd \in GenReadables(cr), t \in GenTaskOutcomes(cr) :
            GenObjectWithCleanup(c, cr, rd, t)

(***************************************************************************)
(* Threaded fixture servers: ThreadedAiohttpServerData.make_url            *)
(***************************************************************************)
MaxServers == 2     \* servers started in one test
MaxPathLen == 3     \* characters of a path handed to make_url

Chars == {"/", "a", "b"}
Paths == SeqsUpTo(Chars, MaxPathLen)
Ports == {8001, 8002}
SslCtxs == {"None", "ssl_ctx"}

\* pulp_cfg.aiohttp_fixtures_origin
aiohttp_fixtures_origin == "localhost"

NoUrl == <<>>

\* Variant: the two protocol handlers the wrong way round.
make_url_swapped_scheme(data, path) ==
    IF path = <<>> THEN [kind |-> "IndexError", url |-> NoUrl]
    ELSE IF path[1] # "/" THEN [kind |-> "ValueError", url |-> NoUrl]
    ELSE LET protocol_handler ==
                 IF data.ssl_ctx = "None" THEN "https://" ELSE "http://"
         IN  [kind |-> "url",
              url |-> <<protocol_handler, data.host, ":", ToString(data.port)>>
                        \o path]

\* make_url: path[0] is read first, which is an IndexError on the empty
\* string; a path is a sequence of characters, a URL a sequence of its parts.
make_url(data, path) ==
    IF path = <<>> THEN [kind |-> "IndexError", url |-> NoUrl]
    ELSE IF path[1] # "/" THEN [kind |-> "ValueError", url |-> NoUrl]
    ELSE LET protocol_handler ==
                 IF data.ssl_ctx = "None" THEN "http://" ELSE "https://"
         IN  [kind |-> "url",
              url |-> <<protocol_handler, data.host, ":", ToString(data.port)>>
                        \o path]

(***************************************************************************)
(* Threaded fixture servers: gen_threaded_aiohttp_server                   *)
(***************************************************************************)
ServerInit ==
    /\ fixture_servers_data = <<>>
    /\ spc = "test"
    /\ sig_i = 0
    /\ join_i = 0
    /\ td_log = <<>>
    /\ url_last = [kind |-> "none"]

\* _gen_threaded_aiohttp_server: the handle it returns. thread is the state of
\* the ThreadedAiohttpServer it started, with the host and port given to it.
new_fixture_server_data(host, port, ssl_ctx) ==
    [host |-> host, port |-> port, ssl_ctx |-> ssl_ctx,
     shutdown_event |-> FALSE,
     thread |-> [host |-> host, port |-> port, ssl_ctx |-> ssl_ctx,
                 state |-> "starting"]]

\* A test starts a server through the factory.
GenThreadedAiohttpServer(port, ssl_ctx) ==
    /\ spc = "test"
    /\ Len(fixture_servers_data) < MaxServers
    /\ fixture_servers_data' =
           Append(fixture_servers_data,
                  new_fixture_server_data(aiohttp_fixtures_origin, port, ssl_ctx))
    /\ UNCHANGED <<spc, sig_i, join_i, td_log, url_last>>
    /\ UNCHANGED <<cleanup_vars, svc_vars, tls_vars, upload_vars>>

\* A test asks a handle for a URL.
MakeUrl(i, path) ==
    /\ spc = "test"
    /\ i \in DOMAIN fixture_servers_data
    /\ url_last' = [kind |-> "call", server |-> i, path |-> path,
                    ret |-> make_url(fixture_servers_data[i], path)]
    /\ UNCHANGED <<fixture_servers_data, spc, sig_i, join_i, td_log>>
    /\ UNCHANGED <<cleanup_vars, svc_vars, tls_vars, upload_vars>>

SetThreadState(i, st) ==
    fixture_servers_data' =
        [fixture_servers_data EXCEPT ![i].thread.state = st]

ThreadState(i) == fixture_servers_data[i].thread.state

\* run(): runner.setup() and site.start() succeed; the serve loop begins.
ThreadStart(i) ==
    /\ i \in DOMAIN fixture_servers_data
    /\ ThreadState(i) = "starting"
    /\ SetThreadState(i, "sleeping")
    /\ UNCHANGED <<spc, sig_i, join_i, td_log, url_last>>
    /\ UNCHANGED <<cleanup_vars, svc_vars, tls_vars, upload_vars>>

\* run(): site.start() raises (the port was taken meanwhile); the thread ends.
ThreadStartFails(i) ==
    /\ i \in DOMAIN fixture_servers_data
    /\ ThreadState(i) = "starting"
    /\ SetThreadState(i, "terminated")
    /\ UNCHANGED <<spc, sig_i, join_i, td_log, url_last>>
    /\ UNCHANGED <<cleanup_vars, svc_vars, tls_vars, upload_vars>>

\* run(): loop.run_until_complete(asyncio.sleep(1)) returns.
ThreadSleep(i) ==
    /\ i \in DOMAIN fixture_servers_data
    /\ ThreadState(i) = "sleeping"
    /\ SetThreadState(i, "polling")
    /\ UNCHANGED <<spc, sig_i, join_i, td_log, url_last>>
    /\ UNCHANGED <<cleanup_vars, svc_vars, tls_vars, upload_vars>>

\* Variant: the loop never looks at the event.
poll_shutdown_event_ignored(is_set) == "sleeping"

\* run(): `if self.shutdown_event.is_set(): break`, else the loop goes on.
poll_shutdown_event(is_set) ==
    IF is_set THEN "terminated" ELSE "sleeping"

ThreadPoll(i) ==
    /\ i \in DOMAIN fixture_servers_data
    /\ ThreadState(i) = "polling"
    /\ SetThreadState(i, poll_shutdown_event(fixture_servers_data[i].shutdown_event))
    /\ UNCHANGED <<spc, sig_i, join_i, td_log, url_last>>
    /\ UNCHANGED <<cleanup_vars, svc_vars, tls_vars, upload_vars>>

ThreadStep(i) ==
    ThreadStart(i) \/ ThreadStartFails(i) \/ ThreadSleep(i) \/ ThreadPoll(i)

\* Variant: one loop that sets a server's event and joins it at once.
after_server_step_interleaved(i, j, n) ==
    IF j < i THEN "join" ELSE IF i < n THEN "signal" ELSE "done"

\* Where the generator stands with i of n events set and j of n threads joined.
after_server_step(i, j, n) ==
    IF i < n THEN "signal" ELSE IF j < n THEN "join" ELSE "done"

\* The test scope ends: the generator resumes after its yield.
ServerTeardownBegin ==
    /\ spc = "test"
    /\ spc' = after_server_step(0, 0, Len(fixture_servers_data))
    /\ UNCHANGED <<fixture_servers_data, sig_i, join_i, td_log, url_last>>
    /\ UNCHANGED <<cleanup_vars, svc_vars, tls_vars, upload_vars>>

\* One iteration of the first loop: fixture_server_data.shutdown_event.set()
SetShutdownEvent ==
    /\ spc = "signal"
    /\ sig_i < Len(fixture_servers_data)
    /\ fixture_servers_data' =
           [fixture_servers_data EXCEPT ![sig_i + 1].shutdown_event = TRUE]
    /\ sig_i' = sig_i + 1
    /\ td_log' = Append(td_log, <<"set", sig_i + 1>>)
    /\ spc' = after_server_step(sig_i + 1, join_i, Len(fixture_servers_data))
    /\ UNCHANGED <<join_i, url_last>>
    /\ UNCHANGED <<cleanup_vars, svc_vars, tls_vars, upload_vars>>

\* One iteration of the second loop: fixture_server_data.thread.join(), which
\* returns once the thread has terminated.
JoinThread ==
    /\ spc = "join"
    /\ join_i < Len(fixture_servers_data)
    /\ ThreadState(join_i + 1) = "terminated"
    /\ join_i' = join_i + 1
    /\ td_log' = Append(td_log, <<"join", join_i + 1>>)
    /\ spc' = after_server_step(sig_i, join_i + 1, Len(fixture_servers_data))
    /\ UNCHANGED <<fixture_servers_data, sig_i, url_last>>
    /\ UNCHANGED <<cleanup_vars, svc_vars, tls_vars, upload_vars>>

ServerTeardownStep == ServerTeardownBegin \/ SetShutdownEvent \/ JoinThread

ServerNext ==
    \/ \E p \in Ports, c \in SslCtxs : GenThreadedAiohttpServer(p, c)
    \/ \E i \in 1..MaxServers : ThreadStart(i)
    \/ \E i \in 1..MaxServers : ThreadStartFails(i)
    \/ \E i \in 1..MaxServers : ThreadSleep(i)
    \/ \E i \in 1..MaxServers : ThreadPoll(i)
    \/ ServerTeardownBegin
    \/ SetShutdownEvent
    \/ JoinThread

(***************************************************************************)
(* Service pollers: start_and_check_services, stop_and_check_services      *)
(***************************************************************************)
MaxOnline == 1      \* online workers / content apps a status may report

\* range(10) in _start_and_check_services and in _stop_and_check_services
StartAttempts == 10
StopAttempts == 10

HttpCodes == {200, 503}

NoStatus == [kind |-> "none", http_code |-> 0, online_workers |-> 0,
             online_content_apps |-> 0, connected |-> FALSE]

\* What a status read can do: return a status (with its HTTP code), or raise
\* urllib3's MaxRetryError or the bindings' ApiException.
PollOutcomes ==
    [kind : {"ok"}, http_code : HttpCodes, online_workers : 0..MaxOnline,
     online_content_apps : 0..MaxOnline, connected : BOOLEAN]
        \cup [kind : {"MaxRetryError", "ApiException"}, http_code : {0},
              online_workers : {0}, online_content_apps : {0},
              connected : {FALSE}]

SvcInit ==
    /\ svc_op = "none"
    /\ svc_cmds = <<>>
    /\ polls = 0
    /\ poll_log = <<>>
    /\ poll_last = NoStatus
    /\ svc_ret = "idle"

\* The helper is called: svc_mgr.start(...) or svc_mgr.stop(...) is issued
\* before the loop.
CallServices(op) ==
    /\ svc_ret # "running"
    /\ svc_op' = op
    /\ svc_cmds' = <<op>>
    /\ polls' = 0
    /\ poll_log' = <<>>
    /\ poll_last' = NoStatus
    /\ svc_ret' = "running"
    /\ UNCHANGED <<cleanup_vars, server_vars, tls_vars, upload_vars>>

raised(o) == o.kind # "ok"

\* Variant: `or` between the four conditions.
services_started_any(o) ==
    /\ ~raised(o)
    /\ \/ o.http_code = 200
       \/ o.online_workers > 0
       \/ o.online_content_apps > 0
       \/ o.connected

\* The try/except/else of _start_and_check_services: an exception is "not
\* responding"; otherwise the four conditions decide.
services_started(o) ==
    /\ ~raised(o)
    /\ o.http_code = 200
    /\ o.online_workers > 0
    /\ o.online_content_apps > 0
    /\ o.connected

\* Variant: the exception is swallowed and the loop goes on.
services_stopped_never(o) == FALSE

\* The try/except of _stop_and_check_services: the read raising is the answer.
services_stopped(o) == raised(o)

\* The loop's result after poll number n of `attempts`.
poll_result(hit, n, attempts) ==
    IF hit THEN "True" ELSE IF n < attempts THEN "running" ELSE "False"

\* One iteration of the loop of _start_and_check_services.
StartPoll(o) ==
    /\ svc_op = "start"
    /\ svc_ret = "running"
    /\ polls < StartAttempts
    /\ polls' = polls + 1
    /\ poll_log' = Append(poll_log, raised(o))
    /\ poll_last' = o
    /\ svc_ret' = poll_result(services_started(o), polls + 1, StartAttempts)
    /\ UNCHANGED <<svc_op, svc_cmds>>
    /\ UNCHANGED <<cleanup_vars, server_vars, tls_vars, upload_vars>>

\* One iteration of the loop of _stop_and_check_services.
StopPoll(o) ==
    /\ svc_op = "stop"
    /\ svc_ret = "running"
    /\ polls < StopAttempts
    /\ polls' = polls + 1
    /\ poll_log' = Append(poll_log, raised(o))
    /\ poll_last' = o
    /\ svc_ret' = poll_result(services_stopped(o), polls + 1, StopAttempts)
    /\ UNCHANGED <<svc_op, svc_cmds>>
    /\ UNCHANGED <<cleanup_vars, server_vars, tls_vars, upload_vars>>

SvcNext ==
    \/ \E op \in {"start", "stop"} : CallServices(op)
    \/ \E o \in PollOutcomes : StartPoll(o)
    \/ \E o \in PollOutcomes : StopPoll(o)

(***************************************************************************)
(* TLS certificate fixtures: one trustme.CA() per session-scoped authority *)
(* fixture, leaf certificates issued per test.                             *)
(***************************************************************************)
MaxIssued == 2      \* certificates one authority issues in a session

Domains == {"server", "client", "proxy"}

NoCert == [issuer |-> "none", hostname |-> "none", serial |-> 0]
NoCA == [name |-> "none", issued |-> 0]

TlsInit ==
    /\ tls_cas = [d \in Domains |-> NoCA]
    /\ tls_certs = [d \in Domains |-> NoCert]

\* The authority fixture of each domain: tls_certificate_authority,
\* client_tls_certificate_authority, proxy_tls_certificate_authority.
authority_fixture(d) ==
    CASE d = "server" -> "tls_certificate_authority"
      [] d = "client" -> "client_tls_certificate_authority"
      [] d = "proxy" -> "proxy_tls_certificate_authority"

\* The authority fixture each leaf fixture takes as its parameter and calls
\* issue_cert on: tls_certificate, client_tls_certificate and
\* proxy_tls_certificate (which names client_tls_certificate_authority).
issuing_domain(d) ==
    CASE d = "server" -> "server"
      [] d = "client" -> "client"
      [] d = "proxy" -> "client"

\* trustme.CA() in the authority fixture of domain d, run once per session:
\* pytest keeps the value it returned.
session_authority(cas, d) ==
    IF cas[d] = NoCA
    THEN [cas EXCEPT ![d] = [name |-> authority_fixture(d), issued |-> 0]]
    ELSE cas

\* A test (or a fixture it uses) requests the authority fixture of domain d.
RequestAuthority(d) ==
    /\ tls_cas[d] = NoCA
    /\ tls_cas' = session_authority(tls_cas, d)
    /\ UNCHANGED tls_certs
    /\ UNCHANGED <<cleanup_vars, server_vars, svc_vars, upload_vars>>

\* A test requests the leaf fixture of domain d: pytest first provides the
\* authority fixture it names, then <authority>.issue_cert(origin) runs.
RequestCertificate(d) ==
    /\ tls_certs[d] = NoCert
    /\ LET a == issuing_domain(d)
           cas == session_authority(tls_cas, a)
       IN  /\ cas[a].issued < MaxIssued
           /\ tls_cas' = [cas EXCEPT ![a].issued = @ + 1]
           /\ tls_certs' = [tls_certs EXCEPT ![d] =
                               [issuer |-> cas[a].name,
                                hostname |-> aiohttp_fixtures_origin,
                                serial |-> cas[a].issued + 1]]
    /\ UNCHANGED <<cleanup_vars, server_vars, svc_vars, upload_vars>>

\* The test ends: its function-scoped certificates go, the authorities stay.
TlsTestEnd ==
    /\ \E d \in Domains : tls_certs[d] # NoCert
    /\ tls_certs' = [d \in Domains |-> NoCert]
    /\ UNCHANGED tls_cas
    /\ UNCHANGED <<cleanup_vars, server_vars, svc_vars, upload_vars>>

TlsNext ==
    \/ \E d \in Domains : RequestAuthority(d)
    \/ \E d \in Domains : RequestCertificate(d)
    \/ TlsTestEnd

(***************************************************************************)
(* UploadRpmTestCase: setUpClass, the tests, tearDownClass.                *)
(***************************************************************************)
MaxRepoId == 3      \* repository ids gen_repo() can draw

\* range(2) in setUpClass
NumRepos == 2

RepoIds == 1..MaxRepoId
RequestOutcomes == {"ok", "raise"}
OrphansPath == "ORPHANS_PATH"

UploadInit ==
    /\ upc = "start"
    /\ repos = <<>>
    /\ up_td = 0
    /\ up_failure = "none"
    /\ server_repos = {}
    /\ posted = <<>>
    /\ up_deletes = <<>>
    /\ orphans_removed = FALSE

\* setUpClass up to `cls.repos = []`: get_config, the skip check, http_get. A
\* SkipTest or a failed download leaves setUpClass before the try.
SetUpStart(outcome) ==
    /\ upc = "start"
    /\ upc' = IF outcome = "ok" THEN "post" ELSE "setup_raised"
    /\ up_failure' = IF outcome = "ok" THEN "none" ELSE "before"
    /\ UNCHANGED <<repos, up_td, server_repos, posted, up_deletes, orphans_removed>>
    /\ UNCHANGED <<cleanup_vars, server_vars, svc_vars, tls_vars>>

\* Variant: the except clause re-raises without calling tearDownClass.
on_setup_failure_no_cleanup == "setup_raised"

\* `except: cls.tearDownClass(); raise`: tearDownClass runs first.
on_setup_failure == "cleanup"

\* repo = client.post(REPOSITORY_PATH, body); cls.repos.append(repo). A post
\* that raises created nothing. id is the id gen_repo() drew.
SetUpPost(outcome, id) ==
    /\ upc = "post"
    /\ id \notin server_repos
    /\ \A k \in 1..Len(posted) : posted[k] # id
    /\ IF outcome = "ok"
       THEN /\ server_repos' = server_repos \cup {id}
            /\ posted' = Append(posted, id)
            /\ repos' = Append(repos, [href |-> id, details |-> FALSE])
            /\ upc' = "get"
            /\ UNCHANGED up_failure
       ELSE /\ up_failure' = "post"
            /\ upc' = on_setup_failure
            /\ UNCHANGED <<server_repos, posted, repos>>
    /\ UNCHANGED <<up_td, up_deletes, orphans_removed>>
    /\ UNCHANGED <<cleanup_vars, server_vars, svc_vars, tls_vars>>

\* repo = client.get(repo['_href'], params={'details': True});
\* cls.repos[-1] = repo; then the next iteration, or the end of setUpClass.
SetUpGet(outcome) ==
    /\ upc = "get"
    /\ IF outcome = "ok"
       THEN /\ repos' = [repos EXCEPT ![Len(repos)].details = TRUE]
            /\ upc' = IF Len(repos) < NumRepos THEN "post" ELSE "tests"
            /\ UNCHANGED up_failure
       ELSE /\ up_failure' = "get"
            /\ upc' = on_setup_failure
            /\ UNCHANGED repos
    /\ UNCHANGED <<up_td, server_repos, posted, up_deletes, orphans_removed>>
    /\ UNCHANGED <<cleanup_vars, server_vars, svc_vars, tls_vars>>

\* The test methods run (they create no repository); unittest then calls
\* tearDownClass.
RunTests ==
    /\ upc = "tests"
    /\ upc' = "teardown"
    /\ UNCHANGED <<repos, up_td, up_failure, server_repos, posted, up_deletes,
                   orphans_removed>>
    /\ UNCHANGED <<cleanup_vars, server_vars, svc_vars, tls_vars>>

\* Where the class run stands when a request of tearDownClass raises: the
\* error leaves tearDownClass, and setUpClass's except clause with it.
teardown_raised(pc) ==
    IF pc = "cleanup" THEN "cleanup_raised" ELSE "teardown_raised"

\* One iteration of `for repo in cls.repos: client.delete(repo['_href'])`.
TearDownDelete(outcome) ==
    /\ upc \in {"cleanup", "teardown"}
    /\ up_td < Len(repos)
    /\ up_deletes' = Append(up_deletes, [path |-> repos[up_td + 1].href,
                                         outcome |-> outcome])
    /\ IF outcome = "ok"
       THEN /\ server_repos' = server_repos \ {repos[up_td + 1].href}
            /\ up_td' = up_td + 1
            /\ UNCHANGED upc
       ELSE /\ upc' = teardown_raised(upc)
            /\ UNCHANGED <<server_repos, up_td>>
    /\ UNCHANGED <<repos, up_failure, posted, orphans_removed>>
    /\ UNCHANGED <<cleanup_vars, server_vars, svc_vars, tls_vars>>

\* client.delete(ORPHANS_PATH), then tearDownClass returns: to unittest, or to
\* the except clause, whose `raise` re-raises the failure of setUpClass.
TearDownOrphans(outcome) ==
    /\ upc \in {"cleanup", "teardown"}
    /\ up_td = Len(repos)
    /\ up_deletes' = Append(up_deletes, [path |-> OrphansPath,
                                         outcome |-> outcome])
    /\ IF outcome = "ok"
       THEN /\ orphans_removed' = TRUE
            /\ upc' = IF upc = "cleanup" THEN "setup_raised" ELSE "done"
       ELSE /\ upc' = teardown_raised(upc)
            /\ UNCHANGED orphans_removed
    /\ UNCHANGED <<repos, up_td, up_failure, server_repos, posted>>
    /\ UNCHANGED <<cleanup_vars, server_vars, svc_vars, tls_vars>>

UploadNext ==
    \/ \E o \in {"ok", "skip", "raise"} : SetUpStart(o)
    \/ \E o \in RequestOutcomes, id \in RepoIds : SetUpPost(o, id)
    \/ \E o \in RequestOutcomes : SetUpGet(o)
    \/ RunTests
    \/ \E o \in RequestOutcomes : TearDownDelete(o)
    \/ \E o \in RequestOutcomes : TearDownOrphans(o)

(***************************************************************************)
(* Specifications: one fixture runs, the others stay idle.                 *)
(***************************************************************************)
Init == CleanupInit /\ ServerInit /\ SvcInit /\ TlsInit /\ UploadInit

Next == CleanupNext

\* The cleanup tracker.
Spec == Init /\ [][Next]_vars

NextGen == GenNext

\* The entries a test can have registered when it calls the helper.
InitGen ==
    /\ ServerInit /\ SvcInit /\ TlsInit /\ UploadInit
    /\ obj_refs \in SeqsUpTo(Clients \X Hrefs, MaxRefs - 1)
    /\ cpc = "test"
    /\ del_i = 0
    /\ delete_task_hrefs = <<>>
    /\ mon_i = 0
    /\ delete_calls = <<>>
    /\ monitor_calls = <<>>
    /\ gen_last = NoGen

\* One call of the create-with-cleanup helper during a test.
SpecGen == InitGen /\ [][NextGen]_vars

NextServer == ServerNext

\* The fixture servers' lifecycle.
SpecServer == Init /\ [][NextServer]_vars

\* The same, with the scheduling the threads get: the teardown runs on, and
\* every server thread keeps being scheduled.
LiveSpecServer ==
    /\ SpecServer
    /\ WF_vars(ServerTeardownStep)
    /\ \A i \in 1..MaxServers : WF_vars(ThreadStep(i))

InitUrl ==
    /\ CleanupInit /\ SvcInit /\ TlsInit /\ UploadInit
    /\ \E p \in Ports, c \in SslCtxs :
           fixture_servers_data =
               <<new_fixture_server_data(aiohttp_fixtures_origin, p, c)>>
    /\ spc = "test"
    /\ sig_i = 0
    /\ join_i = 0
    /\ td_log = <<>>
    /\ url_last = [kind |-> "none"]

NextUrl == \E i \in 1..MaxServers, path \in Paths : MakeUrl(i, path)

\* make_url on the handle of a server the factory returned.
SpecUrl == InitUrl /\ [][NextUrl]_vars

NextSvc == SvcNext

\* The service pollers.
SpecSvc == Init /\ [][NextSvc]_vars

NextTls == TlsNext

\* The certificate fixtures over the tests of a session.
SpecTls == Init /\ [][NextTls]_vars

NextUpload == UploadNext

\* One class run of UploadRpmTestCase.
SpecUpload == Init /\ [][NextUpload]_vars

(***************************************************************************)
(* Properties of the cleanup tracker (Spec).                               *)
(***************************************************************************)
TeardownOver == cpc \in {"monitor", "done", "raised"}

\* C1: the deletion attempts of the teardown are the registrations in reverse
\* order: attempt k is for the k-th entry from the end, and once the deletion
\* loop is over there are exactly as many attempts as entries, so each entry
\* was attempted once and none twice.
C1_DeletesInReverseOrder ==
    LET n == Len(obj_refs)
    IN  /\ Len(delete_calls) <= n
        /\ \A k \in 1..Len(delete_calls) :
               delete_calls[k].entry = obj_refs[n + 1 - k]
        /\ TeardownOver => Len(delete_calls) = n

C1_Witness ==
    /\ cpc = "done"
    /\ Len(obj_refs) = 3
    /\ obj_refs[1] # obj_refs[2]
    /\ obj_refs[2] # obj_refs[3]
    /\ delete_calls[1].entry = obj_refs[3]
    /\ delete_calls[3].entry = obj_refs[1]

\* C2: a deletion that fails (the call raises, or its result has no task) for
\* an entry that is not the last one is followed by the attempts for the
\* entries after it: the loop is never left with entries unattempted.
C2_FailureDoesNotBlockOthers ==
    \A k \in 1..Len(delete_calls) :
        (delete_calls[k].outcome # "task" /\ k < Len(obj_refs))
            => (Len(delete_calls) > k \/ cpc = "delete")

C2_Witness ==
    /\ cpc = "done"
    /\ Len(delete_calls) = 3
    /\ delete_calls[1].outcome = "raise"
    /\ delete_calls[2].outcome = "raise"
    /\ delete_calls[3].outcome = "task"

\* C3, as claimed: the teardown never ends by propagating an error.
C3_TeardownNeverPropagates == cpc # "raised"

\* C3, amended: the teardown propagates an error only from monitor_task: a
\* failed deletion call is never propagated, while a failed wait on a collected
\* task leaves the teardown at once, the tasks after it unwaited.
C3_OnlyAFailedWaitPropagates ==
    /\ cpc = "raised" =>
           /\ monitor_calls # <<>>
           /\ monitor_calls[Len(monitor_calls)].outcome = "raise"
    /\ \A k \in 1..Len(monitor_calls) :
           monitor_calls[k].outcome = "raise" =>
               (cpc = "raised" /\ k = Len(monitor_calls))

C3_Witness ==
    /\ cpc = "raised"
    /\ \E k \in 1..Len(delete_calls) : delete_calls[k].outcome = "raise"
    /\ Len(monitor_calls) < Len(delete_task_hrefs)

\* The task urls the deletion calls returned, in call order (the task url of
\* call k is k).
RECURSIVE ReturnedTasks(_)
ReturnedTasks(k) ==
    IF k = 0 THEN <<>>
    ELSE IF delete_calls[k].outcome = "task"
         THEN Append(ReturnedTasks(k - 1), k)
         ELSE ReturnedTasks(k - 1)

\* C4: when the teardown returns, the tasks waited on are exactly the tasks
\* the successful deletion calls returned (a failed deletion adds none), and
\* no wait is made before every entry has had its deletion attempt.
C4_AllDeleteTasksWaited ==
    /\ cpc = "done" =>
           [k \in 1..Len(monitor_calls) |-> monitor_calls[k].task]
               = ReturnedTasks(Len(delete_calls))
    /\ monitor_calls # <<>> => Len(delete_calls) = Len(obj_refs)

C4_Witness ==
    /\ cpc = "done"
    /\ Len(monitor_calls) = 2
    /\ Len(delete_calls) = 3
    /\ delete_calls[2].outcome = "raise"

(***************************************************************************)
(* Properties of gen_object_with_cleanup (SpecGen).                        *)
(***************************************************************************)
TaskCall == gen_last.kind = "call" /\ gen_last.create.kind = "task"

\* The positions of the created resources this client can read.
ReadablePositions ==
    {i \in 1..Len(gen_last.create.created_resources) :
        gen_last.create.created_resources[i] \in gen_last.readable}

FirstReadable ==
    CHOOSE i \in ReadablePositions : \A j \in ReadablePositions : i <= j

\* C9: when create returned a task, the task is waited on; if the wait returns
\* and some created resource is readable, the resources up to the first
\* readable one are read, in order, and no other; that resource is returned and
\* is the one entry registered, for the same client. A failed wait reads and
\* registers nothing.
C9_FirstReadableResourceRegistered ==
    TaskCall =>
        /\ gen_last.waited
        /\ (gen_last.task_outcome = "ok" /\ ReadablePositions # {}) =>
               LET cr == gen_last.create.created_resources
                   m == FirstReadable
               IN  /\ gen_last.reads = SubSeq(cr, 1, m)
                   /\ gen_last.ret = [kind |-> "object", pulp_href |-> cr[m]]
                   /\ obj_refs = Append(gen_last.refs_before,
                                        <<gen_last.api_client, cr[m]>>)
        /\ gen_last.task_outcome = "raise" =>
               /\ gen_last.reads = <<>>
               /\ gen_last.ret.kind = "TaskError"
               /\ obj_refs = gen_last.refs_before

C9_Witness ==
    /\ TaskCall
    /\ gen_last.ret.kind = "object"
    /\ Len(gen_last.create.created_resources) = 2
    /\ gen_last.create.created_resources[1] \notin gen_last.readable
    /\ Len(gen_last.reads) = 2
    /\ Len(gen_last.refs_before) = 1
    /\ Len(obj_refs) = 2

\* C10: when create returned a task whose wait returned and no created
\* resource (or none at all) is readable by the client, the helper raises its
\* TypeError after trying every resource, and the entries are as before.
C10_NoReadableResourceIsATypeError ==
    (TaskCall /\ gen_last.task_outcome = "ok" /\ ReadablePositions = {}) =>
        /\ gen_last.ret = [kind |-> "TypeError", pulp_href |-> "none"]
        /\ gen_last.reads = gen_last.create.created_resources
        /\ obj_refs = gen_last.refs_before

C10_Witness ==
    /\ TaskCall
    /\ gen_last.ret.kind = "TypeError"
    /\ Len(gen_last.create.created_resources) = 2
    /\ gen_last.readable # {}
    /\ Len(gen_last.refs_before) = 2

(***************************************************************************)
(* Properties of the fixture servers (LiveSpecServer, SpecUrl).            *)
(***************************************************************************)
\* C5: the teardown, once begun, completes; when it has, every server started
\* in the test has its shutdown event set, its thread terminated and joined;
\* and a thread that polls a set event leaves its loop (terminates).
C5_TeardownStopsEveryServer ==
    /\ [](spc = "done" =>
            \A i \in 1..Len(fixture_servers_data) :
                /\ fixture_servers_data[i].shutdown_event
                /\ fixture_servers_data[i].thread.state = "terminated"
                /\ i <= join_i)
    /\ (spc \in {"signal", "join"} ~> spc = "done")
    /\ [][\A i \in 1..Len(fixture_servers_data) :
            (/\ fixture_servers_data[i].thread.state = "polling"
             /\ fixture_servers_data[i].shutdown_event
             /\ fixture_servers_data'[i].thread.state # "polling")
                => fixture_servers_data'[i].thread.state = "terminated"]_vars

C5_Witness ==
    /\ spc = "done"
    /\ Len(fixture_servers_data) = 2
    /\ td_log = <<<<"set", 1>>, <<"set", 2>>, <<"join", 1>>, <<"join", 2>>>>

\* C6, as claimed: make_url of a path that does not start with "/", the empty
\* path included, is a ValueError.
C6_NonSlashPathIsValueError ==
    (url_last.kind = "call"
        /\ (url_last.path = <<>> \/ url_last.path[1] # "/"))
        => url_last.ret.kind = "ValueError"

\* C11: make_url of a path starting with "/" is "https://" when the handle
\* has a TLS context and "http://" when it has none, then the host, ":", the
\* port and the path, host and port being the ones given to the handle's
\* server thread.
C11_UrlIsSchemeHostPortPath ==
    (url_last.kind = "call" /\ url_last.path # <<>> /\ url_last.path[1] = "/")
        => LET data == fixture_servers_data[url_last.server]
               scheme == IF data.ssl_ctx = "None" THEN "http://" ELSE "https://"
           IN  url_last.ret =
                   [kind |-> "url",
                    url |-> <<scheme, data.thread.host, ":",
                              ToString(data.thread.port)>> \o url_last.path]

C11_Witness ==
    /\ url_last.kind = "call"
    /\ url_last.path = <<"/", "a", "/">>
    /\ fixture_servers_data[1].ssl_ctx = "ssl_ctx"
    /\ url_last.ret.url = <<"https://", "localhost", ":", "8002", "/", "a", "/">>

\* The server of handle i is bound and accepting connections: its thread is
\* past site.start() and in the serve loop.
Listening(i) ==
    fixture_servers_data[i].thread.state \in {"sleeping", "polling"}

\* C12, as claimed: during the test, every handle the factory has returned is
\* the handle of a server that is listening.
C12_ReturnedHandleIsListening ==
    spc = "test" => \A i \in 1..Len(fixture_servers_data) : Listening(i)

\* C13: the teardown's steps are the events set in registration order, all of
\* them, and only then the joins in registration order: step k of the log is
\* the setting of event k for k up to the number of servers, and the join of
\* thread k - n after it.
C13_AllSignalsBeforeAnyJoin ==
    LET n == Len(fixture_servers_data)
    IN  /\ Len(td_log) <= 2 * n
        /\ \A k \in 1..Len(td_log) :
               td_log[k] = IF k <= n THEN <<"set", k>> ELSE <<"join", k - n>>
        /\ Len(td_log) = sig_i + join_i
        /\ spc = "done" => Len(td_log) = 2 * n

C13_Witness ==
    /\ spc = "join"
    /\ Len(fixture_servers_data) = 2
    /\ td_log = <<<<"set", 1>>, <<"set", 2>>, <<"join", 1>>>>
    /\ fixture_servers_data[2].thread.state # "terminated"

(***************************************************************************)
(* Properties of the service pollers (SpecSvc).                            *)
(***************************************************************************)
\* The readiness the status must show, all in one poll.
AllReady(o) ==
    /\ o.kind = "ok"
    /\ o.http_code = 200
    /\ o.online_workers >= 1
    /\ o.online_content_apps >= 1
    /\ o.connected = TRUE

\* C7: start issues the start command once and polls at most 10 times; it has
\* returned True exactly when the latest poll showed all four conditions, so
\* no poll it went on from did (a poll that raised included); it returns False
\* only after 10 polls, none of them ready.
C7_StartReturnsAtFirstReadyPoll ==
    svc_op = "start" =>
        /\ svc_cmds = <<"start">>
        /\ polls <= 10
        /\ Len(poll_log) = polls
        /\ svc_ret \in {"running", "True", "False"}
        /\ svc_ret = "True" <=> (polls >= 1 /\ AllReady(poll_last))
        /\ svc_ret = "False" <=> (polls = 10 /\ ~AllReady(poll_last))
        /\ (polls >= 1 /\ poll_log[polls]) => svc_ret # "True"

C7_Witness ==
    /\ svc_op = "start"
    /\ svc_ret = "True"
    /\ polls = 3
    /\ poll_log[1]
    /\ ~poll_log[2]

\* C8: stop issues the stop command once and polls at most 10 times; it has
\* returned True exactly when the latest status read raised and none before
\* it did; it returns False only after 10 polls whose reads all succeeded.
C8_StopReturnsAtFirstFailedRead ==
    svc_op = "stop" =>
        /\ svc_cmds = <<"stop">>
        /\ polls <= 10
        /\ Len(poll_log) = polls
        /\ \A k \in 1..(polls - 1) : ~poll_log[k]
        /\ svc_ret \in {"running", "True", "False"}
        /\ svc_ret = "True" <=>
               (polls >= 1 /\ poll_last.kind \in {"MaxRetryError", "ApiException"})
        /\ svc_ret = "False" <=> (polls = 10 /\ poll_last.kind = "ok")

C8_Witness ==
    /\ svc_op = "stop"
    /\ svc_ret = "True"
    /\ polls = 3
    /\ poll_last.kind = "ApiException"

(***************************************************************************)
(* Properties of the certificate fixtures (SpecTls).                       *)
(***************************************************************************)
\* C14, as claimed: the leaf certificate of every trust domain is issued by
\* the certificate authority of that same domain.
C14_LeafIssuedByOwnAuthority ==
    \A d \in Domains :
        tls_certs[d] # NoCert =>
            /\ tls_certs[d].issuer = authority_fixture(d)
            /\ tls_cas[d].name = authority_fixture(d)

(***************************************************************************)
(* Properties of UploadRpmTestCase (SpecUpload).                           *)
(***************************************************************************)
\* The repositories the class created that are still on the server.
Leftover == {posted[k] : k \in 1..Len(posted)} \cap server_repos

SetUpFailedCreating == up_failure \in {"post", "get"}

====
